---- MODULE Spec2Model ----
(***************************************************************************)
(* State-machine model of the Flask to-do application (src/updatesss.py). *)
(*                                                                         *)
(* Strings are sequences of one-character strings so that str.strip() can  *)
(* be computed.  An optional value (a form field, a JSON key, a nullable   *)
(* column, the 'user_id' key of the session dict) is a set with at most    *)
(* one element: {} is "absent"/None, {v} is "present with value v".        *)
(***************************************************************************)
EXTENDS Integers, Sequences, FiniteSets, TLC

\* Upper bound on the number of rows ever inserted into the tasks table.
MaxTasks == 2

\* The browser talking to the server.
Clients == {"c1"}

\* Values the 'username' form field takes: absent, blank, "a", "a " and "b".
UsernameInputs == { {}, {<<" ">>}, {<<"a">>}, {<<"a", " ">>}, {<<"b">>} }

\* Values the 'password' form field takes: absent, "p" and "q".
PasswordInputs == { {}, {<<"p">>}, {<<"q">>} }

\* Salts generate_password_hash may draw.
Salts == {"s1"}

\* JSON bodies of POST /add: no body, an empty title, a blank title, a padded
\* title with an empty due date, a title with no due date.
JsonInputs ==
    { [title |-> {}, due_date |-> {}, note |-> {}],
      [title |-> {<<>>}, due_date |-> {<<"d">>}, note |-> {}],
      [title |-> {<<" ">>}, due_date |-> {<<"d">>}, note |-> {<<"n">>}],
      [title |-> {<<" ", "t">>}, due_date |-> {<<>>}, note |-> {<<"n">>}],
      [title |-> {<<"t">>}, due_date |-> {}, note |-> {<<"n">>}] }

VARIABLES
    users,       \* the users table: a sequence of rows, row i has id i
    tasks,       \* the tasks table: a function from task id to row
    nextTaskId,  \* AUTO_INCREMENT counter of the tasks table
    session,     \* session[c]: the session cookie browser c sends next
    deleted,     \* history: <<task id, user id>> of every successful delete
    registered,  \* history: id, username and password of every successful register
    loggedOut,   \* history: loggedOut[c] is the cookie the last logout of browser c
                 \* cleared, until the next successful login or register of c
    last,        \* history: the last request served and its response
    pending      \* pending[r]: how far the handler of register request r has got

vars == <<users, tasks, nextTaskId, session, deleted, registered, loggedOut, last, pending>>

----------------------------------------------------------------------------
\* Python helpers

\* x or default, for an optional string: None and '' are falsy.
OrElse(opt, default) ==
    IF opt = {} \/ opt = {<<>>} THEN default ELSE CHOOSE v \in opt : TRUE

\* x or None, for an optional string.
OrNone(opt) == IF opt = {} \/ opt = {<<>>} THEN {} ELSE opt

IsSpace(ch) == ch = " "

RECURSIVE LStrip(_)
LStrip(s) == IF s # <<>> /\ IsSpace(Head(s)) THEN LStrip(Tail(s)) ELSE s

RECURSIVE RStrip(_)
RStrip(s) ==
    IF s # <<>> /\ IsSpace(s[Len(s)]) THEN RStrip(SubSeq(s, 1, Len(s) - 1)) ELSE s

\* Variant of Strip that leaves the string as it is.
NoStrip(s) == s

\* str.strip()
Strip(s) == RStrip(LStrip(s))

----------------------------------------------------------------------------
\* Models

\* werkzeug's generate_password_hash: method, salt and the one-way digest of
\* salt and password (the digest is an ideal, collision-free function).
generate_password_hash(password, salt) ==
    [method |-> "scrypt", salt |-> salt, digest |-> <<"H", salt, password>>]

\* werkzeug's check_password_hash: recompute the digest with the stored salt.
check_password_hash(pwhash, password) ==
    pwhash.digest = generate_password_hash(password, pwhash.salt).digest

\* User(username=...) followed by set_password(password); the id is the
\* auto-increment primary key.
User(id, username, password, salt) ==
    [id |-> id, username |-> username,
     password_hash |-> generate_password_hash(password, salt)]

\* Variant of check_password that accepts every password.
AnyPassword(user, password) == TRUE

\* User.check_password
check_password(user, password) == check_password_hash(user.password_hash, password)

\* Task(user_id=..., title=..., due_date=..., note=...); done defaults to False.
Task(id, user_id, title, due_date, note) ==
    [id |-> id, user_id |-> user_id, title |-> title,
     due_date |-> due_date, note |-> note, done |-> FALSE]

----------------------------------------------------------------------------
\* Queries

\* Variant of UserByUsername that finds no row.
NoUserByUsername(username) == {}

\* User.query.filter_by(username=username).first(): the matching row with the
\* lowest id, or None.
UserByUsername(username) ==
    LET hits == {i \in 1..Len(users) : users[i].username = username}
    IN  IF hits = {} THEN {}
        ELSE {users[CHOOSE i \in hits : \A j \in hits : i <= j]}

\* Variant of TaskByIdAndUser that drops the user_id filter.
TaskByIdOnly(task_id, user_id) ==
    {tasks[i] : i \in {j \in DOMAIN tasks : j = task_id}}

\* Task.query.filter_by(id=task_id, user_id=user_id).first()
TaskByIdAndUser(task_id, user_id) ==
    {tasks[i] : i \in {j \in DOMAIN tasks : j = task_id /\ tasks[j].user_id = user_id}}

\* The rows with the given ids, by descending id.
RECURSIVE OrderByIdDesc(_)
OrderByIdDesc(ids) ==
    IF ids = {} THEN <<>>
    ELSE LET m == CHOOSE i \in ids : \A j \in ids : j <= i
         IN  <<tasks[m]>> \o OrderByIdDesc(ids \ {m})

\* Variant of TasksOfUser that drops the user_id filter.
TasksOfAnyUser(user_id) == OrderByIdDesc(DOMAIN tasks)

\* Task.query.filter_by(user_id=user_id).order_by(Task.id.desc()).all()
TasksOfUser(user_id) ==
    OrderByIdDesc({i \in DOMAIN tasks : tasks[i].user_id = user_id})

----------------------------------------------------------------------------
\* Responses

NoTasks == <<>>

\* redirect(url_for(endpoint))
Redirect(endpoint) ==
    [status |-> 302, kind |-> "redirect", location |-> endpoint,
     error |-> "", tasks |-> NoTasks]

\* render_template_string(template, error=error); error "" is error=None
Render(template, error) ==
    [status |-> 200, kind |-> "html", location |-> template,
     error |-> error, tasks |-> NoTasks]

\* jsonify({'ok': True})
JsonOk ==
    [status |-> 200, kind |-> "json", location |-> "",
     error |-> "", tasks |-> NoTasks]

\* jsonify({'error': error}), status
JsonError(error, status) ==
    [status |-> status, kind |-> "json", location |-> "",
     error |-> error, tasks |-> NoTasks]

\* jsonify(out)
JsonTasks(out) ==
    [status |-> 200, kind |-> "json", location |-> "",
     error |-> "", tasks |-> out]

\* The answer to a request whose handler raised: 500 Internal Server Error.
ServerError ==
    [status |-> 500, kind |-> "html", location |-> "",
     error |-> "Internal Server Error", tasks |-> NoTasks]

\* No response yet.
NoResponse ==
    [status |-> 0, kind |-> "", location |-> "", error |-> "", tasks |-> NoTasks]

NoForm == [username |-> {}, password |-> {}]
NoJson == [title |-> {}, due_date |-> {}, note |-> {}]

\* The record of a served request: route, method, browser, the session the
\* request carried, the path's task id, the form, the JSON body, the response;
\* for a toggle, the done flag the row had when the request arrived, and
\* whether the request served just before was a successful toggle of the same
\* task by the same user.
Served(route, method, c, task, form, json, resp) ==
    [route |-> route, method |-> method, client |-> c, user |-> session[c],
     task |-> task, form |-> form, json |-> json, resp |-> resp,
     before |-> IF route = "toggle"
                THEN {tasks[i].done : i \in {j \in task \cap DOMAIN tasks :
                                                 tasks[j].user_id \in session[c]}}
                ELSE {},
     repeat |-> /\ route = "toggle" /\ resp.status = 200
                /\ last.route = "toggle" /\ last.resp.status = 200
                /\ last.task = task /\ last.user = session[c]]

----------------------------------------------------------------------------
\* The wrapper of login_required: 'user_id' not in session.
NotLoggedIn(sess) == sess = {}

\* The response of login_required's wrapper when no user is logged in.
login_required == Redirect("login")

\* session['user_id']
SessionUser(c) == CHOOSE u \in session[c] : TRUE

\* Variant of SetSession that keeps the user id of a session already bound.
SetSessionIfUnbound(c, id) ==
    /\ session' = [session EXCEPT ![c] = IF @ = {} THEN {id} ELSE @]
    /\ loggedOut' = [loggedOut EXCEPT ![c] = {}]

\* session['user_id'] = id
SetSession(c, id) ==
    /\ session' = [session EXCEPT ![c] = {id}]
    /\ loggedOut' = [loggedOut EXCEPT ![c] = {}]

\* The register requests that may be in progress at the same time.
Requests == {"r1", "r2"}

\* A register request not sent yet.
NotSent ==
    [pc |-> "idle", client |-> CHOOSE c \in Clients : TRUE, form |-> NoForm,
     resp |-> NoResponse]

Init ==
    /\ users = <<>>
    /\ tasks = <<>>
    /\ nextTaskId = 1
    /\ session = [c \in Clients |-> {}]
    /\ deleted = {}
    /\ registered = {}
    /\ loggedOut = [c \in Clients |-> {}]
    /\ pending = [r \in Requests |-> NotSent]
    /\ last = [route |-> "start", method |-> "GET", client |-> CHOOSE c \in Clients : TRUE,
               user |-> {}, task |-> {}, form |-> NoForm, json |-> NoJson,
               resp |-> Render("LOGIN_HTML", ""), before |-> {}, repeat |-> FALSE]


----------------------------------------------------------------------------
\* Routes

\* /register
register(c, method, form) ==
    LET username == Strip(OrElse(form.username, <<>>))
        password == OrElse(form.password, <<>>)
    IN  IF method = "POST"
        THEN IF username = <<>> \/ password = <<>>
             THEN /\ last' = Served("register", method, c, {}, form, NoJson,
                                    Render("REGISTER_HTML", "Enter username and password"))
                  /\ UNCHANGED <<users, tasks, nextTaskId, session, deleted, registered, pending, loggedOut>>
             ELSE IF UserByUsername(username) # {}
             THEN /\ last' = Served("register", method, c, {}, form, NoJson,
                                    Render("REGISTER_HTML", "Username already taken"))
                  /\ UNCHANGED <<users, tasks, nextTaskId, session, deleted, registered, pending, loggedOut>>
             ELSE \E salt \in Salts :
                    LET u == User(Len(users) + 1, username, password, salt)
                    IN  /\ users' = Append(users, u)
                        /\ SetSession(c, u.id)
                        /\ registered' = registered \cup
                              {[id |-> u.id, username |-> username, password |-> password]}
                        /\ last' = Served("register", method, c, {}, form, NoJson,
                                          Redirect("index"))
                        /\ UNCHANGED <<tasks, nextTaskId, deleted, pending>>
        ELSE /\ last' = Served("register", method, c, {}, form, NoJson,
                               Render("REGISTER_HTML", ""))
             /\ UNCHANGED <<users, tasks, nextTaskId, session, deleted, registered, pending, loggedOut>>

\* /login
login(c, method, form) ==
    LET username == Strip(OrElse(form.username, <<>>))
        password == OrElse(form.password, <<>>)
        user == UserByUsername(username)
    IN  IF method = "POST"
        THEN IF user = {} \/ \A u \in user : ~check_password(u, password)
             THEN /\ last' = Served("login", method, c, {}, form, NoJson,
                                    Render("LOGIN_HTML", "Invalid credentials"))
                  /\ UNCHANGED <<users, tasks, nextTaskId, session, deleted, registered, pending, loggedOut>>
             ELSE /\ \E u \in user : SetSession(c, u.id)
                  /\ last' = Served("login", method, c, {}, form, NoJson,
                                    Redirect("index"))
                  /\ UNCHANGED <<users, tasks, nextTaskId, deleted, registered, pending>>
        ELSE /\ last' = Served("login", method, c, {}, form, NoJson,
                               Render("LOGIN_HTML", ""))
             /\ UNCHANGED <<users, tasks, nextTaskId, session, deleted, registered, pending, loggedOut>>

\* /logout
logout(c) ==
    /\ session' = [session EXCEPT ![c] = {}]
    /\ loggedOut' = [loggedOut EXCEPT ![c] = IF session[c] = {} THEN @ ELSE session[c]]
    /\ last' = Served("logout", "GET", c, {}, NoForm, NoJson, Redirect("login"))
    /\ UNCHANGED <<users, tasks, nextTaskId, deleted, registered, pending>>

\* /
index(c) ==
    /\ last' = Served("index", "GET", c, {}, NoForm, NoJson,
                      IF NotLoggedIn(session[c]) THEN login_required
                      ELSE Render("APP_HTML", ""))
    /\ UNCHANGED <<users, tasks, nextTaskId, session, deleted, registered, pending, loggedOut>>

\* /tasks
tasks_api(c) ==
    /\ last' = Served("tasks", "GET", c, {}, NoForm, NoJson,
                      IF NotLoggedIn(session[c]) THEN login_required
                      ELSE JsonTasks(TasksOfUser(SessionUser(c))))
    /\ UNCHANGED <<users, tasks, nextTaskId, session, deleted, registered, pending, loggedOut>>

\* Variant of NewTaskId that takes the id after the highest id in the table.
MaxIdPlusOne ==
    IF DOMAIN tasks = {} THEN 1
    ELSE (CHOOSE i \in DOMAIN tasks : \A j \in DOMAIN tasks : j <= i) + 1

\* The id the tasks table gives the next inserted row.
NewTaskId == nextTaskId

\* /add
add_task(c, json) ==
    IF NotLoggedIn(session[c])
    THEN /\ last' = Served("add", "POST", c, {}, NoForm, json, login_required)
         /\ UNCHANGED <<users, tasks, nextTaskId, session, deleted, registered, pending, loggedOut>>
    ELSE LET title == Strip(OrElse(json.title, <<>>))
         IN  IF title = <<>>
             THEN /\ last' = Served("add", "POST", c, {}, NoForm, json,
                                    JsonError("empty", 400))
                  /\ UNCHANGED <<users, tasks, nextTaskId, session, deleted, registered, pending, loggedOut>>
             ELSE LET t == Task(NewTaskId, SessionUser(c), title,
                                OrNone(json.due_date), OrNone(json.note))
                  IN  /\ nextTaskId <= MaxTasks
                      /\ tasks' = [i \in DOMAIN tasks \cup {t.id} |->
                                      IF i = t.id THEN t ELSE tasks[i]]
                      /\ nextTaskId' = nextTaskId + 1
                      /\ last' = Served("add", "POST", c, {}, NoForm, json, JsonOk)
                      /\ UNCHANGED <<users, session, deleted, registered, pending, loggedOut>>

\* /delete/<int:task_id>
delete_task(c, task_id) ==
    IF NotLoggedIn(session[c])
    THEN /\ last' = Served("delete", "POST", c, {task_id}, NoForm, NoJson, login_required)
         /\ UNCHANGED <<users, tasks, nextTaskId, session, deleted, registered, pending, loggedOut>>
    ELSE LET t == TaskByIdAndUser(task_id, SessionUser(c))
         IN  IF t = {}
             THEN /\ last' = Served("delete", "POST", c, {task_id}, NoForm, NoJson,
                                    JsonError("not found", 404))
                  /\ UNCHANGED <<users, tasks, nextTaskId, session, deleted, registered, pending, loggedOut>>
             ELSE /\ \E row \in t :
                        tasks' = [i \in DOMAIN tasks \ {row.id} |-> tasks[i]]
                  /\ deleted' = deleted \cup {<<task_id, SessionUser(c)>>}
                  /\ last' = Served("delete", "POST", c, {task_id}, NoForm, NoJson, JsonOk)
                  /\ UNCHANGED <<users, nextTaskId, session, registered, pending, loggedOut>>

\* Variant of Toggled that also clears the note.
ToggledWithoutNote(t) == [t EXCEPT !.done = ~t.done, !.note = {}]

\* Variant of Toggled that sets the flag.
MarkedDone(t) == [t EXCEPT !.done = TRUE]

\* t.done = not t.done
Toggled(t) == [t EXCEPT !.done = ~t.done]

\* /toggle/<int:task_id>
toggle_task(c, task_id) ==
    IF NotLoggedIn(session[c])
    THEN /\ last' = Served("toggle", "POST", c, {task_id}, NoForm, NoJson, login_required)
         /\ UNCHANGED <<users, tasks, nextTaskId, session, deleted, registered, pending, loggedOut>>
    ELSE LET t == TaskByIdAndUser(task_id, SessionUser(c))
         IN  IF t = {}
             THEN /\ last' = Served("toggle", "POST", c, {task_id}, NoForm, NoJson,
                                    JsonError("not found", 404))
                  /\ UNCHANGED <<users, tasks, nextTaskId, session, deleted, registered, pending, loggedOut>>
             ELSE /\ \E row \in t :
                        tasks' = [tasks EXCEPT ![row.id] = Toggled(row)]
                  /\ last' = Served("toggle", "POST", c, {task_id}, NoForm, NoJson, JsonOk)
                  /\ UNCHANGED <<users, nextTaskId, session, deleted, registered, pending, loggedOut>>

\* The browser sends the session cookie again that it held before its logout:
\* the cookie is the signed session itself, the server keeps no record of the
\* sessions it issued and logout only answers with an emptied cookie.
SendLoggedOutCookie(c) ==
    /\ loggedOut[c] # {}
    /\ session[c] = {}
    /\ session' = [session EXCEPT ![c] = loggedOut[c]]
    /\ UNCHANGED <<users, tasks, nextTaskId, deleted, registered, pending, loggedOut, last>>

\* The unique constraint of users.username: a row with the username exists.
UniqueViolation(username) ==
    \E i \in 1..Len(users) : users[i].username = username

\* POST /register of request r, from the form to the username query: the
\* request is answered at once when a field is empty or the query finds a
\* row, and goes on to the insert otherwise.
register_query(r, c, form) ==
    LET username == Strip(OrElse(form.username, <<>>))
        password == OrElse(form.password, <<>>)
        error == IF username = <<>> \/ password = <<>>
                 THEN "Enter username and password"
                 ELSE "Username already taken"
    IN  /\ pending[r].pc = "idle"
        /\ IF username = <<>> \/ password = <<>> \/ UserByUsername(username) # {}
           THEN /\ pending' = [pending EXCEPT ![r] =
                                  [pc |-> "done", client |-> c, form |-> form,
                                   resp |-> Render("REGISTER_HTML", error)]]
                /\ last' = Served("register", "POST", c, {}, form, NoJson,
                                  Render("REGISTER_HTML", error))
           ELSE /\ pending' = [pending EXCEPT ![r] =
                                  [pc |-> "insert", client |-> c, form |-> form,
                                   resp |-> NoResponse]]
                /\ UNCHANGED last
        /\ UNCHANGED <<users, tasks, nextTaskId, session, deleted, registered, loggedOut>>

\* POST /register of request r, from the insert to the response: the commit
\* raises when the unique constraint refuses the row, and the request is
\* answered with a server error; otherwise the row is stored and the session
\* bound.
register_commit(r) ==
    LET c == pending[r].client
        form == pending[r].form
        username == Strip(OrElse(form.username, <<>>))
        password == OrElse(form.password, <<>>)
    IN  /\ pending[r].pc = "insert"
        /\ IF UniqueViolation(username)
           THEN /\ pending' = [pending EXCEPT ![r] =
                                  [pc |-> "done", client |-> c, form |-> form,
                                   resp |-> ServerError]]
                /\ last' = Served("register", "POST", c, {}, form, NoJson, ServerError)
                /\ UNCHANGED <<users, tasks, nextTaskId, session, deleted, registered,
                               loggedOut>>
           ELSE \E salt \in Salts :
                  LET u == User(Len(users) + 1, username, password, salt)
                  IN  /\ users' = Append(users, u)
                      /\ SetSession(c, u.id)
                      /\ registered' = registered \cup
                            {[id |-> u.id, username |-> username, password |-> password]}
                      /\ pending' = [pending EXCEPT ![r] =
                                        [pc |-> "done", client |-> c, form |-> form,
                                         resp |-> Redirect("index")]]
                      /\ last' = Served("register", "POST", c, {}, form, NoJson,
                                        Redirect("index"))
                      /\ UNCHANGED <<tasks, nextTaskId, deleted>>

Forms == [username : UsernameInputs, password : PasswordInputs]
TaskIdInputs == 1..MaxTasks

Next ==
    \/ \E c \in Clients : register(c, "GET", NoForm)
    \/ \E c \in Clients, f \in Forms : register(c, "POST", f)
    \/ \E c \in Clients : login(c, "GET", NoForm)
    \/ \E c \in Clients, f \in Forms : login(c, "POST", f)
    \/ \E c \in Clients : logout(c)
    \/ \E c \in Clients : index(c)
    \/ \E c \in Clients : tasks_api(c)
    \/ \E c \in Clients, j \in JsonInputs : add_task(c, j)
    \/ \E c \in Clients, id \in TaskIdInputs : delete_task(c, id)
    \/ \E c \in Clients, id \in TaskIdInputs : toggle_task(c, id)

\* The server with browsers that drop the session cookie at logout.
Spec == Init /\ [][Next]_vars

NextReplay ==
    \/ Next
    \/ \E c \in Clients : SendLoggedOutCookie(c)

\* The server with browsers that may send a logged-out cookie again.
SpecReplay == Init /\ [][NextReplay]_vars

NextRace ==
    \/ \E r \in Requests, c \in Clients, f \in Forms : register_query(r, c, f)
    \/ \E r \in Requests : register_commit(r)

\* The server handling two register requests whose handlers interleave.
SpecRace == Init /\ [][NextRace]_vars

----------------------------------------------------------------------------
\* Properties

ApiRoutes == {"tasks", "add", "delete", "toggle"}

\* The ids of the rows of a task list.
IdsOf(rows) == {rows[k].id : k \in 1..Len(rows)}

\* C1: a GET /tasks served to a session bound to user U returns exactly the
\* rows of the tasks table whose owner is U, each once and as stored: no task
\* of another user, and none of U's missing.
C1_ListIsExactlyOwnTasks ==
    (last.route = "tasks" /\ last.user # {}) =>
        /\ last.resp.kind = "json" /\ last.resp.status = 200
        /\ IdsOf(last.resp.tasks) = {i \in DOMAIN tasks : tasks[i].user_id \in last.user}
        /\ Len(last.resp.tasks) = Cardinality(IdsOf(last.resp.tasks))
        /\ \A k \in 1..Len(last.resp.tasks) :
              last.resp.tasks[k] = tasks[last.resp.tasks[k].id]

\* A list was served to a user who owns a task while another user owns one too.
C1_Witness ==
    /\ last.route = "tasks" /\ last.user # {}
    /\ last.resp.tasks # <<>>
    /\ \E i \in DOMAIN tasks : tasks[i].user_id \notin last.user

\* The task id is not one of a task the session's user owns.
NotOwnTask(c, task_id) ==
    \/ task_id \notin DOMAIN tasks
    \/ tasks[task_id].user_id \notin session[c]

\* C2: a toggle or delete of a task id by a logged-in user who does not own a
\* task with that id (the task is another user's, or there is none) answers
\* "not found" with status 404 in both cases and leaves both tables unchanged.
C2_ForeignTaskIsNotFound ==
    [][\A c \in Clients, id \in TaskIdInputs :
          (/\ last'.route \in {"toggle", "delete"} /\ last'.task = {id}
           /\ (toggle_task(c, id) \/ delete_task(c, id))
           /\ ~NotLoggedIn(session[c]) /\ NotOwnTask(c, id)) =>
            /\ last'.resp = JsonError("not found", 404)
            /\ tasks' = tasks
            /\ users' = users
            /\ nextTaskId' = nextTaskId]_vars

\* A toggle or delete of another user's existing task was answered 404.
C2_Witness ==
    /\ last.route \in {"toggle", "delete"}
    /\ last.user # {}
    /\ last.resp.status = 404
    /\ \E id \in last.task :
          id \in DOMAIN tasks /\ tasks[id].user_id \notin last.user

\* The username and the password a submitted form stands for.
UsernameOf(form) == Strip(OrElse(form.username, <<>>))
PasswordOf(form) == OrElse(form.password, <<>>)

\* The successful registrations whose credentials the form carries.
CredentialsOf(form) ==
    {r \in registered : r.username = UsernameOf(form) /\ r.password = PasswordOf(form)}

\* Some user registered with the form's username.
KnownUsername(form) == \E r \in registered : r.username = UsernameOf(form)

\* Some row of the users table has the form's username.
TakenUsername(form) == \E i \in 1..Len(users) : users[i].username = UsernameOf(form)

\* C3: a request without a session gets a redirect to login on the main page
\* and, on every API route, an authorization-failure response that is not a
\* redirect; it returns no task data and changes no table.
C3_NoSessionApiGetsAuthFailure ==
    [][\A c \in Clients, j \in JsonInputs, id \in TaskIdInputs :
          NotLoggedIn(session[c]) =>
            /\ index(c) => last'.resp = Redirect("login")
            /\ (tasks_api(c) \/ add_task(c, j) \/ delete_task(c, id) \/ toggle_task(c, id)) =>
                  /\ last'.resp.kind # "redirect"
                  /\ last'.resp.status \in {401, 403}
                  /\ last'.resp.tasks = NoTasks
                  /\ tasks' = tasks /\ nextTaskId' = nextTaskId /\ users' = users]_vars

\* C4: a successful register binds the session to the id of the row it
\* created; a successful login binds it to the id of the one user with the
\* submitted username, whatever the session was bound to before; a login with
\* the credentials of an earlier successful register succeeds and binds the
\* session to that user.
C4_SessionBoundOnRegisterAndLogin ==
    [][\A c \in Clients : LET f == last'.form IN
          /\ (/\ last'.route = "register" /\ last'.resp = Redirect("index")
              /\ register(c, "POST", f)) =>
                /\ Len(users') = Len(users) + 1
                /\ \A i \in 1..Len(users) : users'[i] = users[i]
                /\ users'[Len(users')].id \notin {users[i].id : i \in 1..Len(users)}
                /\ users'[Len(users')].username = UsernameOf(f)
                /\ session'[c] = {users'[Len(users')].id}
          /\ (/\ last'.route = "login" /\ last'.resp = Redirect("index")
              /\ login(c, "POST", f)) =>
                \E i \in 1..Len(users) :
                    /\ users[i].username = UsernameOf(f)
                    /\ \A k \in 1..Len(users) :
                          users[k].username = UsernameOf(f) => k = i
                    /\ session'[c] = {users[i].id}
          /\ (/\ last'.route = "login" /\ CredentialsOf(f) # {}
              /\ login(c, "POST", f)) =>
                /\ last'.resp = Redirect("index")
                /\ \E r \in CredentialsOf(f) : session'[c] = {r.id}]_vars

\* A login with registered credentials succeeded in a session that was bound
\* to another user, and the session is now bound to the user logged in.
C4_Witness ==
    /\ last.route = "login" /\ last.resp = Redirect("index")
    /\ last.user # {} /\ last.user # session[last.client]
    /\ \E r \in CredentialsOf(last.form) : session[last.client] = {r.id}

\* C5: a login with a username nobody registered and a login with a registered
\* username but another password than the registered one get the same
\* response, the login form with "Invalid credentials"; neither changes the
\* session or the users table.
C5_FailedLoginsAreAlike ==
    [][\A c \in Clients : LET f == last'.form IN
          (/\ last'.route = "login"
           /\ (~KnownUsername(f) \/ (KnownUsername(f) /\ CredentialsOf(f) = {}))
           /\ login(c, "POST", f)) =>
            /\ last'.resp = Render("LOGIN_HTML", "Invalid credentials")
            /\ session' = session
            /\ users' = users]_vars

\* A login with a registered username and a wrong password was refused while a
\* session was bound, and the session is still bound to the same user.
C5_Witness ==
    /\ last.route = "login" /\ last.method = "POST"
    /\ KnownUsername(last.form) /\ CredentialsOf(last.form) = {}
    /\ PasswordOf(last.form) # <<>>
    /\ last.resp.error = "Invalid credentials"
    /\ last.user # {} /\ session[last.client] = last.user

\* No two rows of the users table have the same username.
UniqueUsernames ==
    \A i, k \in 1..Len(users) : users[i].username = users[k].username => i = k

\* C6 as claimed: a register whose trimmed username is taken always answers
\* "Username already taken", creates no user, changes no password hash and
\* binds no session; no two users ever share a username.
C6_TakenUsernameIsDuplicate ==
    [][/\ UniqueUsernames'
       /\ \A c \in Clients : LET f == last'.form IN
             (/\ last'.route = "register" /\ TakenUsername(f)
              /\ register(c, "POST", f)) =>
               /\ last'.resp = Render("REGISTER_HTML", "Username already taken")
               /\ users' = users
               /\ session' = session]_vars

\* C6 as amended: a register whose trimmed username is taken answers "Username
\* already taken" when the password is not empty and "Enter username and
\* password" when it is; either way it creates no user, changes no password
\* hash and binds no session; no two users ever share a username.
C6_TakenUsernameIsRefused ==
    [][/\ UniqueUsernames'
       /\ \A c \in Clients : LET f == last'.form IN
             (/\ last'.route = "register" /\ TakenUsername(f)
              /\ register(c, "POST", f)) =>
               /\ last'.resp = Render("REGISTER_HTML",
                                      IF PasswordOf(f) = <<>>
                                      THEN "Enter username and password"
                                      ELSE "Username already taken")
               /\ users' = users
               /\ session' = session]_vars

\* A register with a padded username that trims to a taken one was refused as
\* a duplicate.
C6_Witness ==
    /\ last.route = "register" /\ last.method = "POST"
    /\ TakenUsername(last.form)
    /\ \E u \in last.form.username : u # UsernameOf(last.form)
    /\ last.resp.error = "Username already taken"

\* The title key is absent, or its value consists of whitespace only.
BlankTitle(json) ==
    \A t \in json.title : \A k \in 1..Len(t) : t[k] = " "

\* C7: an add by a logged-in user with an absent, empty or all-whitespace
\* title answers status 400 with the error "empty" and leaves the tasks table
\* as it was.
C7_BlankTitleIsRefused ==
    [][\A c \in Clients, j \in JsonInputs :
          (/\ last'.route = "add" /\ last'.json = j
           /\ add_task(c, j) /\ ~NotLoggedIn(session[c]) /\ BlankTitle(j)) =>
            /\ last'.resp = JsonError("empty", 400)
            /\ tasks' = tasks
            /\ nextTaskId' = nextTaskId]_vars

\* An add with an all-whitespace title was refused while the table held a task.
C7_Witness ==
    /\ last.route = "add" /\ last.user # {}
    /\ last.json.title = {<<" ">>}
    /\ last.resp.status = 400
    /\ DOMAIN tasks # {}

\* C8: a toggle of a task by its owner succeeds and negates the task's done
\* flag; when the request served just before was a successful toggle of the
\* same task by the same user, the flag is back at the value it had before
\* that first toggle.
C8_ToggleIsInvolution ==
    [][\A c \in Clients, id \in TaskIdInputs :
          (/\ last'.route = "toggle" /\ last'.task = {id}
           /\ toggle_task(c, id) /\ ~NotLoggedIn(session[c]) /\ ~NotOwnTask(c, id)) =>
            /\ last'.resp = JsonOk
            /\ id \in DOMAIN tasks'
            /\ tasks'[id].done = ~tasks[id].done
            /\ (/\ last.route = "toggle" /\ last.resp = JsonOk
                /\ last.task = {id} /\ last.user = session[c]) =>
                  last.before = {tasks'[id].done}]_vars

\* The second of two successive toggles of a task by its owner succeeded.
C8_Witness ==
    /\ last.route = "toggle" /\ last.resp = JsonOk
    /\ last.repeat
    /\ \E id \in last.task : last.before = {~tasks[id].done}

\* C9: a task id its owner deleted is in the tasks table no more, is not in a
\* list served to that user, and every toggle or delete of it by that user
\* answers "not found" with status 404, whatever was added since.
C9_DeletedStaysNotFound ==
    [][/\ \A d \in deleted' :
             /\ d[1] \notin DOMAIN tasks'
             /\ (last'.route = "tasks" /\ d[2] \in last'.user) =>
                    d[1] \notin IdsOf(last'.resp.tasks)
       /\ \A c \in Clients, id \in TaskIdInputs :
             (/\ last'.route \in {"toggle", "delete"} /\ last'.task = {id}
              /\ (toggle_task(c, id) \/ delete_task(c, id))
              /\ \E d \in deleted : d[1] = id /\ d[2] \in session[c]) =>
               last'.resp = JsonError("not found", 404)]_vars

\* The user who deleted a task asked for it again and got 404, while the table
\* holds a task added later.
C9_Witness ==
    /\ last.route \in {"toggle", "delete"}
    /\ last.resp.status = 404
    /\ \E d \in deleted :
          /\ d[1] \in last.task /\ d[2] \in last.user
          /\ \E i \in DOMAIN tasks : i > d[1]

\* C10: a request to the main page or an API route that carries the cookie a
\* logout cleared, before any new successful login or register, is answered as
\* a request without a session.
C10_LoggedOutCookieIsRejected ==
    (/\ last.route \in ApiRoutes \cup {"index"}
     /\ last.user # {}
     /\ last.user = loggedOut[last.client]) =>
        last.resp = login_required

\* C11: of two register requests with the same username and non-empty
\* passwords, however their handlers interleave, one is answered with the
\* redirect of a success and the other with "Username already taken", and one
\* user with that username exists.
C11_ConcurrentRegisterIsAtomic ==
    \A r1, r2 \in Requests :
        (/\ r1 # r2
         /\ pending[r1].pc = "done" /\ pending[r2].pc = "done"
         /\ UsernameOf(pending[r1].form) = UsernameOf(pending[r2].form)
         /\ UsernameOf(pending[r1].form) # <<>>
         /\ PasswordOf(pending[r1].form) # <<>> /\ PasswordOf(pending[r2].form) # <<>>) =>
            /\ {pending[r1].resp, pending[r2].resp} =
                  {Redirect("index"), Render("REGISTER_HTML", "Username already taken")}
            /\ Cardinality({i \in 1..Len(users) :
                               users[i].username = UsernameOf(pending[r1].form)}) = 1

\* The fields of a task row other than done.
FieldsButDone(t) == <<t.id, t.user_id, t.title, t.due_date, t.note>>

\* C12: a request leaves the owner, title, due date and note of every task
\* that exists before and after it as they were, so they stay as the add that
\* created the task set them; a done flag changes only in a toggle of that
\* task; a toggle leaves every other task as it was and removes and adds none,
\* a delete leaves every task but its target in place and as it was, and an
\* add leaves every task that existed in place and as it was.  A request that
\* leaves the tasks table as it was meets all of this.
C12_TaskFieldsAreImmutable ==
    [][\/ tasks' = tasks
       \/ /\ \A i \in DOMAIN tasks \cap DOMAIN tasks' :
                /\ FieldsButDone(tasks'[i]) = FieldsButDone(tasks[i])
                /\ tasks'[i].done # tasks[i].done =>
                       (last'.route = "toggle" /\ last'.task = {i})
          /\ \A c \in Clients, id \in last'.task :
                /\ (last'.route = "toggle" /\ toggle_task(c, id)) =>
                      /\ DOMAIN tasks' = DOMAIN tasks
                      /\ \A i \in DOMAIN tasks \ {id} : tasks'[i] = tasks[i]
                /\ (last'.route = "delete" /\ delete_task(c, id)) =>
                      \A i \in DOMAIN tasks \ {id} :
                          i \in DOMAIN tasks' /\ tasks'[i] = tasks[i]
          /\ \A c \in Clients :
                (last'.route = "add" /\ add_task(c, last'.json)) =>
                    \A i \in DOMAIN tasks : i \in DOMAIN tasks' /\ tasks'[i] = tasks[i]]_vars

\* A toggle succeeded on a task that has a note and is now done, while the
\* same user owns another task that is not done.
C12_Witness ==
    /\ last.route = "toggle" /\ last.resp = JsonOk
    /\ \E id \in last.task :
          /\ tasks[id].done /\ tasks[id].note # {}
          /\ \E i \in DOMAIN tasks \ {id} :
                tasks[i].user_id = tasks[id].user_id /\ ~tasks[i].done

====
